---- MODULE Spec2Model ----
(***************************************************************************)
(* PebbleStateEntropyReward (imitation/algorithms/pebble/entropy_reward.py) *)
(* as a state machine: the reward-function object the trainer holds, the   *)
(* pickled state produced by __getstate__, the external replay buffer      *)
(* views, the outcome of the most recent call and, when it is kept, the    *)
(* log of the entropy computations made so far.                            *)
(***************************************************************************)
EXTENDS Integers, Sequences, FiniteSets, TLC

VARIABLES reward_fn, origin, pickled, lastSet, observations, last, entropyLog

vars == <<reward_fn, origin, pickled, lastSet, observations, last, entropyLog>>

-----------------------------------------------------------------------------
(* Bounds of the model *)

\* samples the running statistic may have accumulated before calls stop
MaxSamples == 2

-----------------------------------------------------------------------------
(* Python values *)

\* Optional values: None, or a one-element wrapper around the value
None == <<>>
Some(x) == <<x>>
Get(o) == o[1]

\* class PebbleRewardPhase(Enum)
LEARNING_START == "LEARNING_START"
UNSUPERVISED_EXPLORATION == "UNSUPERVISED_EXPLORATION"
POLICY_AND_REWARD_LEARNING == "POLICY_AND_REWARD_LEARNING"
PebbleRewardPhase ==
    {LEARNING_START, UNSUPERVISED_EXPLORATION, POLICY_AND_REWARD_LEARNING}

\* exceptions an operation can end with
NoExc == "None"
AssertionError == "AssertionError"
ValueError == "ValueError"

-----------------------------------------------------------------------------
(* Inputs *)

\* constructor arguments: a learned reward function (a stub identified by
\* name) and a value of nearest_neighbor_k
ConstructorArgs == {<<"F1", 1>>, <<"F2", 2>>}

\* replay buffer views and observation shapes a caller can supply
Views == {"V1", "V2"}
Shapes == {<<1>>, <<2>>}

\* raw observation arrays behind the views: V1 is (steps, *obs_shape),
\* V2 is (steps, envs, *obs_shape)
InitialObservations ==
    [v \in Views |->
        IF v = "V1" THEN [shape |-> <<4, 1>>, data |-> <<0, 0, 2, 2>>]
                    ELSE [shape |-> <<2, 2, 1>>, data |-> <<0, 2, 1, 1>>]]

\* the same elements in the same order behind both views: V1 holds them as
\* (steps * envs, *obs_shape), V2 as (steps, envs, *obs_shape)
SharedData == {<<0, 0, 2, 2>>, <<0, 2, 1, 1>>}

SharedObservations(data) ==
    [v \in Views |->
        IF v = "V1" THEN [shape |-> <<4, 1>>, data |-> data]
                    ELSE [shape |-> <<2, 2, 1>>, data |-> data]]

\* query batches (a sequence of rows), actions and done flags
StateBatches ==
    { << <<0>> >>, << <<2>> >>, << <<0>>, <<2>> >>, << <<0, 0>> >>, << <<1, 1>> >> }
ActionBatches == {"a0"}
DoneBatches == {"d0"}

-----------------------------------------------------------------------------
(* Object dictionaries: functions from attribute names to values *)

EmptyDict == [f \in {} |-> None]

DictUpdate(d, s) ==
    [f \in DOMAIN d \cup DOMAIN s |-> IF f \in DOMAIN s THEN s[f] ELSE d[f]]

DictSet(d, f, v) == DictUpdate(d, [g \in {f} |-> v])

DictDel(d, f) == [g \in DOMAIN d \ {f} |-> d[g]]

-----------------------------------------------------------------------------
(* Numeric collaborators: numpy reshape, util.compute_state_entropy and    *)
(* networks.RunningNorm, over integers                                     *)

RECURSIVE Prod(_)
Prod(shape) == IF shape = <<>> THEN 1 ELSE Head(shape) * Prod(Tail(shape))

RECURSIVE Sum(_)
Sum(xs) == IF xs = <<>> THEN 0 ELSE Head(xs) + Sum(Tail(xs))

\* variant: of an array with an environment axis only the rows of the
\* first environment are kept
Reshape_first_env(array, obs_shape) ==
    LET width == Prod(obs_shape)
        n == Len(array.data) \div width
        rows == [r \in 1 .. n |-> SubSeq(array.data, (r - 1) * width + 1, r * width)]
        envs == IF Len(array.shape) > 2 THEN array.shape[2] ELSE 1
    IN  [r \in 1 .. (n \div envs) |-> rows[(r - 1) * envs + 1]]

\* ndarray.reshape((-1, *obs_shape)): the rows of the flattened array
Reshape(array, obs_shape) ==
    LET width == Prod(obs_shape)
        n == Len(array.data) \div width
    IN  [r \in 1 .. n |-> SubSeq(array.data, (r - 1) * width + 1, r * width)]

\* squared Euclidean distance of two rows
Dist2(x, y) == Sum([j \in 1 .. Len(x) |-> (x[j] - y[j]) * (x[j] - y[j])])

\* the k-th smallest element of a sequence (the largest when it is shorter)
KthSmallest(ds, k) ==
    LET kk == IF k > Len(ds) THEN Len(ds) ELSE k
        Below(d) == Cardinality({j \in 1 .. Len(ds) : ds[j] < d})
        UpTo(d) == Cardinality({j \in 1 .. Len(ds) : ds[j] <= d})
    IN  CHOOSE d \in {ds[j] : j \in 1 .. Len(ds)} : Below(d) < kk /\ kk <= UpTo(d)

\* one entropy value per query row: the distance to its k-th nearest
\* historical observation (squared, standing for its logarithm)
compute_state_entropy(obs, all_obs, k) ==
    [i \in 1 .. Len(obs) |->
        KthSmallest([j \in 1 .. Len(all_obs) |-> Dist2(obs[i], all_obs[j])], k)]

\* RunningNorm(1): no samples yet
RunningNormInit == [count |-> 0, total |-> 0]

\* RunningNorm.forward: update the statistics with the batch, then centre
\* the batch on the running mean (truncated; the division by the running
\* standard deviation is left out)
RunningNormForward(stats, batch) ==
    LET new == [count |-> stats.count + Len(batch),
                total |-> stats.total + Sum(batch)]
    IN  [stats |-> new,
         out |-> [i \in 1 .. Len(batch) |-> batch[i] - (new.total \div new.count)]]

\* the stub learned reward function: its result names the function and the
\* arguments it was called with
LearnedReward(fn, state, action, next_state, done) ==
    [by |-> fn, on |-> <<state, action, next_state, done>>]

-----------------------------------------------------------------------------
(* The methods of PebbleStateEntropyReward, as functions of the object's   *)
(* dictionary.  A method's outcome is a record: the exception raised (or    *)
(* NoExc), the object afterwards, the value returned, the path taken, the  *)
(* calls made to the learned reward function, the view that was read and   *)
(* the writes made to the observation arrays of views (none in the source) *)
(* and the entropies computed before normalization.                        *)

Outcome(exc, obj, ret, path, calls, read) ==
    [exc |-> exc, obj |-> obj, ret |-> ret, path |-> path, calls |-> calls,
     read |-> read, writes |-> <<>>, entropies |-> <<>>]

\* the views' arrays after the writes <<view, array>> of a call
RECURSIVE Written(_, _)
Written(buffers, writes) ==
    IF writes = <<>> THEN buffers
    ELSE Written([buffers EXCEPT ![Head(writes)[1]] = Head(writes)[2]], Tail(writes))

Returns(obj, ret) == Outcome(NoExc, obj, ret, "none", <<>>, None)

Raises(exc, obj) == Outcome(exc, obj, None, "none", <<>>, None)

\* variant: the object starts in the exploration phase
__init___exploring(learned_reward_fn, nearest_neighbor_k) ==
    [trained_reward_fn |-> learned_reward_fn,
     nearest_neighbor_k |-> nearest_neighbor_k,
     entropy_stats |-> RunningNormInit,
     state |-> UNSUPERVISED_EXPLORATION,
     replay_buffer_view |-> None,
     obs_shape |-> None]

__init__(learned_reward_fn, nearest_neighbor_k) ==
    [trained_reward_fn |-> learned_reward_fn,
     nearest_neighbor_k |-> nearest_neighbor_k,
     entropy_stats |-> RunningNormInit,
     state |-> LEARNING_START,
     replay_buffer_view |-> None,
     obs_shape |-> None]

\* variant: a view already bound is kept
set_replay_buffer_keeps_first(self, replay_buffer, obs_shape) ==
    IF self.replay_buffer_view = None
    THEN Returns(DictSet(DictSet(self, "replay_buffer_view", Some(replay_buffer)),
                         "obs_shape", Some(obs_shape)),
                 None)
    ELSE Returns(self, None)

set_replay_buffer(self, replay_buffer, obs_shape) ==
    Returns(DictSet(DictSet(self, "replay_buffer_view", Some(replay_buffer)),
                    "obs_shape", Some(obs_shape)),
            None)

\* variant: binding the buffer starts the exploration phase by itself
on_replay_buffer_initialized_advances(self, replay_buffer) ==
    LET out == set_replay_buffer(self, replay_buffer.buffer_view, replay_buffer.obs_shape)
    IN  IF self.state = LEARNING_START
        THEN Returns(DictSet(out.obj, "state", UNSUPERVISED_EXPLORATION), None)
        ELSE out

on_replay_buffer_initialized(self, replay_buffer) ==
    set_replay_buffer(self, replay_buffer.buffer_view, replay_buffer.obs_shape)

\* variant: the assertion is missing
unsupervised_exploration_start_unchecked(self) ==
    Returns(DictSet(self, "state", UNSUPERVISED_EXPLORATION), None)

\* variant: the assertion only excludes the last phase
unsupervised_exploration_start_lenient(self) ==
    IF self.state # POLICY_AND_REWARD_LEARNING
    THEN Returns(DictSet(self, "state", UNSUPERVISED_EXPLORATION), None)
    ELSE Raises(AssertionError, self)

unsupervised_exploration_start(self) ==
    IF self.state = LEARNING_START
    THEN Returns(DictSet(self, "state", UNSUPERVISED_EXPLORATION), None)
    ELSE Raises(AssertionError, self)

\* variant: the assertion only excludes the last phase
unsupervised_exploration_finish_lenient(self) ==
    IF self.state # POLICY_AND_REWARD_LEARNING
    THEN Returns(DictSet(self, "state", POLICY_AND_REWARD_LEARNING), None)
    ELSE Raises(AssertionError, self)

unsupervised_exploration_finish(self) ==
    IF self.state = UNSUPERVISED_EXPLORATION
    THEN Returns(DictSet(self, "state", POLICY_AND_REWARD_LEARNING), None)
    ELSE Raises(AssertionError, self)

\* variant: a call that finds no buffer also drops the stored shape
_entropy_reward_forgets_shape(self, state, buffers) ==
    IF self.replay_buffer_view = None
    THEN Outcome(ValueError, DictSet(self, "obs_shape", None), None, "entropy", <<>>, None)
    ELSE LET all_observations ==
                 Reshape(buffers[Get(self.replay_buffer_view)], Get(self.obs_shape))
             entropies ==
                 compute_state_entropy(state, all_observations, self.nearest_neighbor_k)
             normalized == RunningNormForward(self.entropy_stats, entropies)
         IN  Outcome(NoExc, DictSet(self, "entropy_stats", normalized.stats),
                     Some(normalized.out), "entropy", <<>>, self.replay_buffer_view)

\* variant: the view's array is reshaped in place (an assignment to its
\* shape attribute) instead of through ndarray.reshape
_entropy_reward_reshapes_in_place(self, state, buffers) ==
    IF self.replay_buffer_view = None
    THEN Outcome(ValueError, self, None, "entropy", <<>>, None)
    ELSE LET array == buffers[Get(self.replay_buffer_view)]
             all_observations == Reshape(array, Get(self.obs_shape))
             entropies ==
                 compute_state_entropy(state, all_observations, self.nearest_neighbor_k)
             normalized == RunningNormForward(self.entropy_stats, entropies)
             out == Outcome(NoExc, DictSet(self, "entropy_stats", normalized.stats),
                            Some(normalized.out), "entropy", <<>>, self.replay_buffer_view)
         IN  [out EXCEPT !.writes =
                  << <<Get(self.replay_buffer_view),
                       [shape |-> <<Len(all_observations)>> \o Get(self.obs_shape),
                        data |-> array.data]>> >>]

\* variant: the batch is normalized with a copy of the statistic, which
\* the object does not keep
_entropy_reward_pure(self, state, buffers) ==
    IF self.replay_buffer_view = None
    THEN Outcome(ValueError, self, None, "entropy", <<>>, None)
    ELSE LET all_observations ==
                 Reshape(buffers[Get(self.replay_buffer_view)], Get(self.obs_shape))
             entropies ==
                 compute_state_entropy(state, all_observations, self.nearest_neighbor_k)
             normalized == RunningNormForward(self.entropy_stats, entropies)
         IN  Outcome(NoExc, self,
                     Some(normalized.out), "entropy", <<>>, self.replay_buffer_view)

\* variant: without a buffer a reward of zeros is returned
_entropy_reward_defaults(self, state, buffers) ==
    IF self.replay_buffer_view = None
    THEN Outcome(NoExc, self, Some([i \in 1 .. Len(state) |-> 0]), "entropy", <<>>, None)
    ELSE LET all_observations ==
                 Reshape(buffers[Get(self.replay_buffer_view)], Get(self.obs_shape))
             entropies ==
                 compute_state_entropy(state, all_observations, self.nearest_neighbor_k)
             normalized == RunningNormForward(self.entropy_stats, entropies)
         IN  Outcome(NoExc, DictSet(self, "entropy_stats", normalized.stats),
                     Some(normalized.out), "entropy", <<>>, self.replay_buffer_view)

\* variant: a missing buffer is reported by an assertion
_entropy_reward_asserts(self, state, buffers) ==
    IF self.replay_buffer_view = None
    THEN Outcome(AssertionError, self, None, "entropy", <<>>, None)
    ELSE LET all_observations ==
                 Reshape(buffers[Get(self.replay_buffer_view)], Get(self.obs_shape))
             entropies ==
                 compute_state_entropy(state, all_observations, self.nearest_neighbor_k)
             normalized == RunningNormForward(self.entropy_stats, entropies)
         IN  Outcome(NoExc, DictSet(self, "entropy_stats", normalized.stats),
                     Some(normalized.out), "entropy", <<>>, self.replay_buffer_view)

\* variant: the check looks at obs_shape, which a reload keeps, so that the
\* read of None.observations raises AttributeError
_entropy_reward_checks_shape(self, state, buffers) ==
    IF self.obs_shape = None
    THEN Outcome(ValueError, self, None, "entropy", <<>>, None)
    ELSE IF self.replay_buffer_view = None
    THEN Outcome("AttributeError", self, None, "entropy", <<>>, None)
    ELSE LET all_observations ==
                 Reshape(buffers[Get(self.replay_buffer_view)], Get(self.obs_shape))
             entropies ==
                 compute_state_entropy(state, all_observations, self.nearest_neighbor_k)
             normalized == RunningNormForward(self.entropy_stats, entropies)
         IN  Outcome(NoExc, DictSet(self, "entropy_stats", normalized.stats),
                     Some(normalized.out), "entropy", <<>>, self.replay_buffer_view)

\* variant: the neighbour looked at moves on with every sample already seen
_entropy_reward_drifts(self, state, buffers) ==
    IF self.replay_buffer_view = None
    THEN Outcome(ValueError, self, None, "entropy", <<>>, None)
    ELSE LET all_observations ==
                 Reshape(buffers[Get(self.replay_buffer_view)], Get(self.obs_shape))
             entropies ==
                 compute_state_entropy(state, all_observations,
                                       self.nearest_neighbor_k + self.entropy_stats.count)
             normalized == RunningNormForward(self.entropy_stats, entropies)
             out == Outcome(NoExc, DictSet(self, "entropy_stats", normalized.stats),
                            Some(normalized.out), "entropy", <<>>, self.replay_buffer_view)
         IN  [out EXCEPT !.entropies = entropies]

_entropy_reward(self, state, buffers) ==
    IF self.replay_buffer_view = None
    THEN Outcome(ValueError, self, None, "entropy", <<>>, None)
    ELSE LET all_observations ==
                 Reshape(buffers[Get(self.replay_buffer_view)], Get(self.obs_shape))
             entropies ==
                 compute_state_entropy(state, all_observations, self.nearest_neighbor_k)
             normalized == RunningNormForward(self.entropy_stats, entropies)
             out == Outcome(NoExc, DictSet(self, "entropy_stats", normalized.stats),
                            Some(normalized.out), "entropy", <<>>, self.replay_buffer_view)
         IN  [out EXCEPT !.entropies = entropies]

\* variant: outside exploration the running statistic is started afresh
__call___resets_statistics(self, state, action, next_state, done, buffers) ==
    IF self.state = UNSUPERVISED_EXPLORATION
    THEN _entropy_reward(self, state, buffers)
    ELSE Outcome(NoExc, DictSet(self, "entropy_stats", RunningNormInit),
                 Some(LearnedReward(self.trained_reward_fn, state, action, next_state, done)),
                 "learned",
                 << <<self.trained_reward_fn, state, action, next_state, done>> >>,
                 None)

\* variant: without a buffer the learned reward function is the fallback
__call___falls_back(self, state, action, next_state, done, buffers) ==
    IF self.state = UNSUPERVISED_EXPLORATION /\ self.replay_buffer_view # None
    THEN _entropy_reward(self, state, buffers)
    ELSE Outcome(NoExc, self,
                 Some(LearnedReward(self.trained_reward_fn, state, action, next_state, done)),
                 "learned",
                 << <<self.trained_reward_fn, state, action, next_state, done>> >>,
                 None)

\* variant: state and next_state change places in the forwarded call
__call___swaps(self, state, action, next_state, done, buffers) ==
    IF self.state = UNSUPERVISED_EXPLORATION
    THEN _entropy_reward(self, state, buffers)
    ELSE Outcome(NoExc, self,
                 Some(LearnedReward(self.trained_reward_fn, next_state, action, state, done)),
                 "learned",
                 << <<self.trained_reward_fn, next_state, action, state, done>> >>,
                 None)

__call__(self, state, action, next_state, done, buffers) ==
    IF self.state = UNSUPERVISED_EXPLORATION
    THEN _entropy_reward(self, state, buffers)
    ELSE Outcome(NoExc, self,
                 Some(LearnedReward(self.trained_reward_fn, state, action, next_state, done)),
                 "learned",
                 << <<self.trained_reward_fn, state, action, next_state, done>> >>,
                 None)

\* variant: the view is cleared on the object itself before the copy
__getstate___clears_live(self) ==
    Returns(DictSet(self, "replay_buffer_view", None),
            Some(DictDel(self, "replay_buffer_view")))

\* returns a copy of the dictionary without the view; self is left as it is
__getstate__(self) == Returns(self, Some(DictDel(self, "replay_buffer_view")))

\* variant: the reload clears the observation shape along with the view
__setstate___clears_shape(self, state) ==
    Returns(DictSet(DictSet(DictUpdate(self, state), "replay_buffer_view", None),
                    "obs_shape", None),
            None)

\* variant: the reloaded object starts over in the first phase
__setstate___restarts(self, state) ==
    Returns(DictSet(DictSet(DictUpdate(self, state), "replay_buffer_view", None),
                    "state", LEARNING_START),
            None)

__setstate__(self, state) ==
    Returns(DictSet(DictUpdate(self, state), "replay_buffer_view", None), None)

-----------------------------------------------------------------------------
(* The state machine *)

Width(batch) == Len(batch[1])

SameShape(b1, b2) == Len(b1) = Len(b2) /\ Width(b1) = Width(b2)

\* the record of the most recent call
Called(op, args, out) ==
    [op |-> op, args |-> args, exc |-> out.exc, ret |-> out.ret,
     path |-> out.path, calls |-> out.calls, read |-> out.read]

Init ==
    \E a \in ConstructorArgs :
        /\ reward_fn = __init__(a[1], a[2])
        /\ origin = "__init__"
        /\ pickled = None
        /\ lastSet = None
        /\ observations = InitialObservations
        /\ last = Called("__init__", a, Returns(__init__(a[1], a[2]), None))
        /\ entropyLog = None

\* the log after a call: a successful entropy computation is appended, with
\* what it was computed from, when the log is kept
Logged(log, self, args, out) ==
    IF log # None /\ out.path = "entropy" /\ out.exc = NoExc
    THEN Some(Append(Get(log),
                     [query |-> args[1],
                      view |-> Get(out.read),
                      obs_shape |-> Get(self.obs_shape),
                      k |-> self.nearest_neighbor_k,
                      samples |-> self.entropy_stats.count,
                      entropies |-> out.entropies]))
    ELSE log

\* a method call on the object, with outcome out
Apply(op, args, out) ==
    /\ reward_fn' = out.obj
    /\ last' = Called(op, args, out)
    /\ observations' = Written(observations, out.writes)
    /\ entropyLog' = Logged(entropyLog, reward_fn, args, out)
    /\ UNCHANGED <<origin, pickled>>

SetReplayBuffer ==
    \E v \in Views, s \in Shapes :
        /\ Apply("set_replay_buffer", <<v, s>>, set_replay_buffer(reward_fn, v, s))
        /\ lastSet' = Some(<<v, s>>)

OnReplayBufferInitialized ==
    \E v \in Views, s \in Shapes :
        LET wrapper == [buffer_view |-> v, obs_shape |-> s]
        IN  /\ Apply("on_replay_buffer_initialized", <<wrapper>>,
                     on_replay_buffer_initialized(reward_fn, wrapper))
            /\ lastSet' = Some(<<v, s>>)

UnsupervisedExplorationStart ==
    /\ Apply("unsupervised_exploration_start", <<>>,
             unsupervised_exploration_start(reward_fn))
    /\ UNCHANGED lastSet

UnsupervisedExplorationFinish ==
    /\ Apply("unsupervised_exploration_finish", <<>>,
             unsupervised_exploration_finish(reward_fn))
    /\ UNCHANGED lastSet

\* the query batch fits the bound buffer, and the statistic has room for it
WellFormedQuery(obj, state) ==
    (obj.state = UNSUPERVISED_EXPLORATION /\ obj.replay_buffer_view # None) =>
        /\ Width(state) = Prod(Get(obj.obs_shape))
        /\ obj.entropy_stats.count + Len(state) <= MaxSamples

Call ==
    \E state \in StateBatches, action \in ActionBatches,
       next_state \in StateBatches, done \in DoneBatches :
        /\ SameShape(state, next_state)
        /\ WellFormedQuery(reward_fn, state)
        /\ Apply("__call__", <<state, action, next_state, done>>,
                 __call__(reward_fn, state, action, next_state, done, observations))
        /\ UNCHANGED lastSet

\* pickle.dumps(reward_fn): the pickle holds what __getstate__ returns
\* (and, for reference, the object as it was when pickled)
Pickle ==
    LET out == __getstate__(reward_fn)
    IN  /\ reward_fn' = out.obj
        /\ pickled' = Some([state |-> Get(out.ret), source |-> reward_fn])
        /\ last' = Called("__getstate__", <<>>, out)
        /\ observations' = Written(observations, out.writes)
        /\ UNCHANGED <<origin, lastSet, entropyLog>>

\* pickle.loads: a new object, filled by __setstate__, which the trainer
\* holds from now on
Unpickle ==
    /\ pickled # None
    /\ LET out == __setstate__(EmptyDict, Get(pickled).state)
       IN  /\ reward_fn' = out.obj
           /\ last' = Called("__setstate__", <<Get(pickled).state>>, out)
           /\ observations' = Written(observations, out.writes)
    /\ origin' = "__setstate__"
    /\ lastSet' = None
    /\ UNCHANGED <<pickled, entropyLog>>

Next ==
    \/ SetReplayBuffer
    \/ OnReplayBufferInitialized
    \/ UnsupervisedExplorationStart
    \/ UnsupervisedExplorationFinish
    \/ Call
    \/ Pickle
    \/ Unpickle

Spec == Init /\ [][Next]_vars

\* Exploration with the entropy log kept, over views that hold the same
\* elements in different shapes
InitEntropy ==
    \E a \in ConstructorArgs, data \in SharedData :
        /\ reward_fn = __init__(a[1], a[2])
        /\ origin = "__init__"
        /\ pickled = None
        /\ lastSet = None
        /\ observations = SharedObservations(data)
        /\ last = Called("__init__", a, Returns(__init__(a[1], a[2]), None))
        /\ entropyLog = Some(<<>>)

NextEntropy ==
    \/ SetReplayBuffer
    \/ UnsupervisedExplorationStart
    \/ UnsupervisedExplorationFinish
    \/ Call

SpecEntropy == InitEntropy /\ [][NextEntropy]_vars

-----------------------------------------------------------------------------
(* Properties *)

Phase == reward_fn.state

\* the step is a call of the method op (every action records its own name)
IsCall(op) == last'.op = op

Failed(exc) == last'.exc = exc

\* one step of the phase machine, or none
LinearStep(p, q) ==
    \/ q = p
    \/ p = LEARNING_START /\ q = UNSUPERVISED_EXPLORATION
    \/ p = UNSUPERVISED_EXPLORATION /\ q = POLICY_AND_REWARD_LEARNING

\* C1: every method call on an object leaves its phase where it is or moves
\* it one step along LEARNING_START -> UNSUPERVISED_EXPLORATION ->
\* POLICY_AND_REWARD_LEARNING (never back, never skipping, never out of the
\* last phase); pickling records the object's phase, and the object made by
\* a reload starts in the phase that was pickled.
C1_PhaseIsLinear ==
    [][/\ ~IsCall("__setstate__") => LinearStep(Phase, Phase')
       /\ IsCall("__getstate__") => Get(pickled').state.state = Phase
       /\ IsCall("__setstate__") => Phase' = Get(pickled).state.state]_vars

\* unsupervised_exploration_start was refused in the terminal phase
C1_Witness ==
    /\ last.op = "unsupervised_exploration_start"
    /\ last.exc = AssertionError
    /\ Phase = POLICY_AND_REWARD_LEARNING
    /\ origin = "__setstate__"

\* C2: unsupervised_exploration_start called in LEARNING_START returns and
\* the phase becomes UNSUPERVISED_EXPLORATION; called in any other phase it
\* raises AssertionError and the phase stays as it was.
C2_StartOnlyFromLearningStart ==
    [][IsCall("unsupervised_exploration_start") =>
          IF Phase = LEARNING_START
          THEN Failed(NoExc) /\ Phase' = UNSUPERVISED_EXPLORATION
          ELSE Failed(AssertionError) /\ Phase' = Phase]_vars

C2_Witness ==
    /\ last.op = "unsupervised_exploration_start"
    /\ last.exc = AssertionError
    /\ Phase = UNSUPERVISED_EXPLORATION

\* C3: unsupervised_exploration_finish called in UNSUPERVISED_EXPLORATION
\* returns and the phase becomes POLICY_AND_REWARD_LEARNING; called in any
\* other phase it raises AssertionError and the phase stays as it was.
C3_FinishOnlyFromExploration ==
    [][IsCall("unsupervised_exploration_finish") =>
          IF Phase = UNSUPERVISED_EXPLORATION
          THEN Failed(NoExc) /\ Phase' = POLICY_AND_REWARD_LEARNING
          ELSE Failed(AssertionError) /\ Phase' = Phase]_vars

C3_Witness ==
    /\ last.op = "unsupervised_exploration_finish"
    /\ last.exc = AssertionError
    /\ Phase = LEARNING_START

\* C4: a call of __call__ takes the entropy path exactly when the phase is
\* UNSUPERVISED_EXPLORATION, and the learned-reward path otherwise, whether
\* or not a replay buffer is bound.
C4_RoutesByPhase ==
    [][IsCall("__call__") =>
          /\ last'.path = "entropy" <=> Phase = UNSUPERVISED_EXPLORATION
          /\ last'.path = "learned" <=> Phase # UNSUPERVISED_EXPLORATION]_vars

\* the learned path was taken although a buffer is bound
C4_Witness ==
    /\ last.op = "__call__"
    /\ last.path = "learned"
    /\ Phase = POLICY_AND_REWARD_LEARNING
    /\ reward_fn.replay_buffer_view # None

\* C5: outside UNSUPERVISED_EXPLORATION, __call__ calls the learned reward
\* function exactly once, with (state, action, next_state, done) as
\* received and in that order, and returns its result as it is.
C5_ForwardsToLearnedReward ==
    [][IsCall("__call__") /\ Phase # UNSUPERVISED_EXPLORATION =>
          /\ Failed(NoExc)
          /\ last'.calls = << <<reward_fn.trained_reward_fn>> \o last'.args >>
          /\ last'.ret = Some(LearnedReward(reward_fn.trained_reward_fn,
                                            last'.args[1], last'.args[2],
                                            last'.args[3], last'.args[4]))]_vars

\* a forwarded call whose state and next_state differ
C5_Witness ==
    /\ last.op = "__call__"
    /\ Phase = LEARNING_START
    /\ Len(last.calls) = 1
    /\ last.args[1] # last.args[3]

\* C6: __call__ in UNSUPERVISED_EXPLORATION with no replay buffer view set
\* raises ValueError, returns nothing and does not call the learned reward
\* function; an illegal phase transition raises AssertionError, which is a
\* different error.
C6_MissingBufferIsValueError ==
    [][/\ (IsCall("__call__") /\ Phase = UNSUPERVISED_EXPLORATION
              /\ reward_fn.replay_buffer_view = None) =>
             /\ Failed(ValueError)
             /\ last'.ret = None
             /\ last'.calls = <<>>
             /\ last'.path = "entropy"
       /\ ((IsCall("unsupervised_exploration_start")
               \/ IsCall("unsupervised_exploration_finish")) /\ ~Failed(NoExc)) =>
             Failed(AssertionError) /\ AssertionError # ValueError]_vars

\* the usage error on an object whose view was cleared by a reload
C6_Witness ==
    /\ last.op = "__call__"
    /\ last.exc = ValueError
    /\ origin = "__setstate__"
    /\ reward_fn.obs_shape # None

\* C7: the object made by a reload has the phase, k, learned reward function
\* and running statistics the pickled object had when it was pickled, and
\* no replay buffer view.
C7_RoundTrip ==
    last.op = "__setstate__" =>
        LET source == Get(pickled).source
        IN  /\ reward_fn.state = source.state
            /\ reward_fn.nearest_neighbor_k = source.nearest_neighbor_k
            /\ reward_fn.trained_reward_fn = source.trained_reward_fn
            /\ reward_fn.entropy_stats = source.entropy_stats
            /\ reward_fn.replay_buffer_view = None

\* a reload of an exploring object with statistics and a bound view
C7_Witness ==
    /\ last.op = "__setstate__"
    /\ Get(pickled).source.replay_buffer_view # None
    /\ Get(pickled).source.state = UNSUPERVISED_EXPLORATION
    /\ Get(pickled).source.entropy_stats.count > 0

\* C8: on a reloaded object in UNSUPERVISED_EXPLORATION, __call__ raises
\* ValueError as long as set_replay_buffer has not been called on it, and
\* returns a reward once it has.
C8_ReloadedNeedsFreshBuffer ==
    [][(IsCall("__call__") /\ origin = "__setstate__"
           /\ Phase = UNSUPERVISED_EXPLORATION) =>
          IF lastSet = None
          THEN Failed(ValueError) /\ last'.ret = None
          ELSE Failed(NoExc) /\ last'.ret # None /\ last'.path = "entropy"]_vars

\* a reward computed by an object reloaded during exploration
C8_Witness ==
    /\ last.op = "__call__"
    /\ last.exc = NoExc
    /\ last.path = "entropy"
    /\ origin = "__setstate__"
    /\ Get(pickled).source.state = UNSUPERVISED_EXPLORATION
    /\ Get(pickled).source.replay_buffer_view # None

\* C9: once set_replay_buffer or on_replay_buffer_initialized has been
\* called on the object, in whatever phase and however often, the stored
\* view and shape are the pair of the most recent call, and an entropy
\* computation reads that view.
C9_LastBufferWins ==
    /\ lastSet # None =>
          /\ reward_fn.replay_buffer_view = Some(Get(lastSet)[1])
          /\ reward_fn.obs_shape = Some(Get(lastSet)[2])
    /\ (last.op = "__call__" /\ last.path = "entropy" /\ last.exc = NoExc) =>
          lastSet # None /\ last.read = Some(Get(lastSet)[1])

\* the constructed object read V2 after it had been pickled with V1 bound
C9_Witness ==
    /\ origin = "__init__"
    /\ pickled # None
    /\ Get(pickled).source.replay_buffer_view = Some("V1")
    /\ last.op = "__call__"
    /\ last.read = Some("V2")

\* C10: __call__, set_replay_buffer and on_replay_buffer_initialized never
\* change the phase; a method call changes it only when it is an
\* unsupervised_exploration_start or unsupervised_exploration_finish that
\* returns.
C10_OnlyTransitionsMovePhase ==
    [][/\ (IsCall("__call__") \/ IsCall("set_replay_buffer")
              \/ IsCall("on_replay_buffer_initialized")) => Phase' = Phase
       /\ (~IsCall("__setstate__") /\ Phase' # Phase) =>
             /\ IsCall("unsupervised_exploration_start")
                   \/ IsCall("unsupervised_exploration_finish")
             /\ Failed(NoExc)]_vars

\* a failed computation during exploration
C10_Witness ==
    /\ last.op = "__call__"
    /\ last.exc = ValueError
    /\ Phase = UNSUPERVISED_EXPLORATION
    /\ origin = "__init__"


\* C11: _entropy_reward runs only in a call made while the phase is
\* UNSUPERVISED_EXPLORATION; it returns a reward only when a replay buffer
\* view is set, which is the view it read, and without one it raises
\* ValueError.
C11_EntropyOnlyWhenExploringAndBound ==
    [][(IsCall("__call__") /\ last'.path = "entropy") =>
          /\ Phase = UNSUPERVISED_EXPLORATION
          /\ IF reward_fn.replay_buffer_view = None
             THEN Failed(ValueError) /\ last'.read = None
             ELSE Failed(NoExc) /\ last'.read = reward_fn.replay_buffer_view]_vars

\* an entropy reward computed from V1 by the constructed object
C11_Witness ==
    /\ last.op = "__call__"
    /\ last.path = "entropy"
    /\ last.exc = NoExc
    /\ last.read = Some("V1")
    /\ origin = "__init__"
    /\ pickled = None


\* C12: a call of __call__ in UNSUPERVISED_EXPLORATION with a replay buffer
\* bound returns a reward of one value per row of state and updates the
\* running statistic with that batch: its sample count grows by the number
\* of rows, so the statistic after the call differs from the one before.
C12_ExplorationUpdatesStatistics ==
    [][(IsCall("__call__") /\ Phase = UNSUPERVISED_EXPLORATION
           /\ reward_fn.replay_buffer_view # None) =>
          /\ Failed(NoExc)
          /\ Len(Get(last'.ret)) = Len(last'.args[1])
          /\ reward_fn'.entropy_stats.count =
                 reward_fn.entropy_stats.count + Len(last'.args[1])
          /\ reward_fn'.entropy_stats # reward_fn.entropy_stats]_vars

\* the second of two one-row calls
C12_Witness ==
    /\ last.op = "__call__"
    /\ last.path = "entropy"
    /\ last.exc = NoExc
    /\ Len(last.args[1]) = 1
    /\ reward_fn.entropy_stats.count = 2


\* C13: no call of any method (__call__ on either path, set_replay_buffer,
\* on_replay_buffer_initialized, the phase transitions, __getstate__,
\* __setstate__) changes the observations of a replay buffer view.
C13_ViewsAreNeverWritten ==
    [][observations' = observations]_vars

\* an entropy reward was computed from the array of shape (steps, envs, 1)
C13_Witness ==
    /\ last.op = "__call__"
    /\ last.exc = NoExc
    /\ last.read = Some("V2")
    /\ reward_fn.obs_shape = Some(<<1>>)
    /\ observations["V2"].shape = <<2, 2, 1>>


\* C14: right after construction, whatever learned reward function and k
\* were supplied, the phase is LEARNING_START, no replay buffer view is set
\* and the running statistic has no samples; the function and k are stored
\* as supplied.
C14_Construction ==
    last.op = "__init__" =>
        /\ reward_fn.state = LEARNING_START
        /\ reward_fn.replay_buffer_view = None
        /\ reward_fn.entropy_stats.count = 0
        /\ reward_fn.trained_reward_fn = last.args[1]
        /\ reward_fn.nearest_neighbor_k = last.args[2]

\* the object constructed with the second pair of arguments
C14_Witness ==
    /\ last.op = "__init__"
    /\ last.args = <<"F2", 2>>


\* the entropy computations logged so far
Log == Get(entropyLog)

C16_LeadingAxesDoNotMatter ==
    /\ \A i \in 1 .. Len(Log), j \in 1 .. Len(Log) :
          (/\ Log[i].query = Log[j].query
           /\ Log[i].obs_shape = Log[j].obs_shape
           /\ Log[i].k = Log[j].k
           /\ observations[Log[i].view].data = observations[Log[j].view].data
           /\ observations[Log[i].view].shape # observations[Log[j].view].shape) =>
              Log[i].entropies = Log[j].entropies
    /\ \A q \in StateBatches :
          (/\ Phase = UNSUPERVISED_EXPLORATION
           /\ reward_fn.replay_buffer_view # None
           /\ WellFormedQuery(reward_fn, q)) =>
              LET flat == __call__(DictSet(reward_fn, "replay_buffer_view", Some("V1")),
                                   q, "a0", q, "d0", observations)
                  envs == __call__(DictSet(reward_fn, "replay_buffer_view", Some("V2")),
                                   q, "a0", q, "d0", observations)
              IN  flat.ret = envs.ret /\ flat.obj.entropy_stats = envs.obj.entropy_stats

\* the same query was computed from the flat view and from the view with an
\* environment axis
C16_Witness ==
    /\ Len(Log) = 2
    /\ Log[1].query = Log[2].query
    /\ Log[1].obs_shape = <<1>>
    /\ Log[2].obs_shape = <<1>>
    /\ Log[1].view = "V1"
    /\ Log[2].view = "V2"
    /\ observations["V1"].shape = <<4, 1>>
    /\ observations["V2"].shape = <<2, 2, 1>>


\* C17: a call of __call__ that raises ValueError for the missing replay
\* buffer leaves the object as it was: phase, k, learned reward function,
\* view, observation shape and running statistic.
C17_FailedCallChangesNothing ==
    [][(IsCall("__call__") /\ Failed(ValueError)) =>
          /\ reward_fn' = reward_fn
          /\ last'.read = None]_vars

\* the usage error on an object that carries statistics and a shape
C17_Witness ==
    /\ last.op = "__call__"
    /\ last.exc = ValueError
    /\ reward_fn.entropy_stats.count > 0
    /\ reward_fn.obs_shape # None
    /\ reward_fn.replay_buffer_view = None

\* C18: a call of __call__ in LEARNING_START or POLICY_AND_REWARD_LEARNING
\* leaves the running statistic (and the rest of the object) unchanged and
\* reads no replay buffer view.
C18_LearnedPathFreezesStatistics ==
    [][(IsCall("__call__") /\ Phase # UNSUPERVISED_EXPLORATION) =>
          /\ reward_fn'.entropy_stats = reward_fn.entropy_stats
          /\ reward_fn' = reward_fn
          /\ last'.read = None]_vars

\* a call after exploration, with statistics gathered and a buffer bound
C18_Witness ==
    /\ last.op = "__call__"
    /\ last.path = "learned"
    /\ Phase = POLICY_AND_REWARD_LEARNING
    /\ reward_fn.entropy_stats.count > 0
    /\ reward_fn.replay_buffer_view # None

\* C19: __getstate__ returns without changing the object it is called on,
\* and a call of __call__ that follows it, in UNSUPERVISED_EXPLORATION on an
\* object whose view was bound, returns a reward.
C19_SerializingLeavesObject ==
    [][/\ IsCall("__getstate__") => Failed(NoExc) /\ reward_fn' = reward_fn
       /\ (IsCall("__call__") /\ last.op = "__getstate__"
              /\ Phase = UNSUPERVISED_EXPLORATION
              /\ Get(pickled).source.replay_buffer_view # None) =>
             Failed(NoExc) /\ last'.ret # None]_vars

\* an exploring object with a bound view and statistics was pickled
C19_Witness ==
    /\ last.op = "__getstate__"
    /\ Phase = UNSUPERVISED_EXPLORATION
    /\ reward_fn.replay_buffer_view # None
    /\ reward_fn.entropy_stats.count > 0

\* C20: the object made by a reload has the observation shape the pickled
\* object had and no view; and whenever a view is set, it and the stored
\* shape are the pair given in one call of set_replay_buffer.
C20_ReloadKeepsShape ==
    /\ last.op = "__setstate__" =>
          /\ reward_fn.obs_shape = Get(pickled).source.obs_shape
          /\ reward_fn.replay_buffer_view = None
    /\ reward_fn.replay_buffer_view # None =>
          /\ lastSet # None
          /\ reward_fn.replay_buffer_view = Some(Get(lastSet)[1])
          /\ reward_fn.obs_shape = Some(Get(lastSet)[2])

\* a reload of an object that had V2 bound with shape (2,)
C20_Witness ==
    /\ last.op = "__setstate__"
    /\ Get(pickled).source.replay_buffer_view = Some("V2")
    /\ reward_fn.obs_shape = Some(<<2>>)
    /\ reward_fn.replay_buffer_view = None

====
